---- MODULE Spec2Model ----
(***************************************************************************)
(* A model of quickwit-cli's `source` subcommands (source.rs): argument    *)
(* parsing, the describe and list executors, and flatten_json.             *)
(*                                                                         *)
(* Text that the program orders or concatenates (source ids, partition     *)
(* ids, JSON keys, dotted paths, the not-found message) is a sequence of   *)
(* byte codes, so that String::cmp and format! are computed, not assumed.  *)
(* Text that is only carried around (source types, offsets, scalar JSON    *)
(* leaves, URIs) is a TLA+ string.                                         *)
(***************************************************************************)
EXTENDS Integers, Sequences, FiniteSets, TLC

VARIABLES
    \* ---- one invocation of `quickwit source ...`
    matches,        \* the clap ArgMatches handed to parse_cli_args
    pc,             \* position of the invocation
    command,        \* the parsed SourceCliCommand
    metastore,      \* whether a metastore handle is held
    index_metadata, \* the fetched IndexMetadata
    result,         \* what the invocation returned (or that it panicked)
    stdout,         \* the tables printed so far, in order
    call_log,       \* the metastore calls made so far, in order, with outcome
    \* ---- one call of flatten_json, statement by statement
    fl_pc,          \* "idle" | "loop" | "done"
    fl_input,       \* the argument `value`
    fl_values,      \* the work list `values`
    fl_acc,         \* the accumulator `acc`
    fl_iters        \* number of loop iterations executed

cliVars == <<matches, pc, command, metastore, index_metadata, result, stdout, call_log>>
flVars == <<fl_pc, fl_input, fl_values, fl_acc, fl_iters>>
vars == <<matches, pc, command, metastore, index_metadata, result, stdout, call_log,
          fl_pc, fl_input, fl_values, fl_acc, fl_iters>>

---------------------------------------------------------------------------
(* Bounds of the model *)

\* JSON values handed to flatten_json have at most this many nodes.
MaxNodes == 3
\* An index has at most this many sources.
MaxSources == 2
\* A checkpoint has at most this many partitions.
MaxPartitions == 2

---------------------------------------------------------------------------
(* Text *)

\* The byte '.' of format!("{}.{}", root, key).
Dot == 46

Min(a, b) == IF a <= b THEN a ELSE b

\* left.cmp(&right) != Greater on String: bytewise lexicographic order.
StrLeq(s, t) ==
    \/ \E i \in 1..Min(Len(s), Len(t)) :
          /\ s[i] < t[i]
          /\ \A j \in 1..(i - 1) : s[j] = t[j]
    \/ /\ Len(s) <= Len(t)
       /\ \A j \in 1..Len(s) : s[j] = t[j]

\* Whether `part` occurs in `text`.
Contains(text, part) ==
    \E i \in 0..(Len(text) - Len(part)) :
        \A j \in 1..Len(part) : text[i + j] = part[j]

\* Vec::sort_by behind itertools' sorted_by: a stable sort of records by
\* their field `field`.
InsertSorted(sorted, x, field) ==
    LET pos == Cardinality({j \in 1..Len(sorted) : StrLeq(sorted[j][field], x[field])})
    IN  SubSeq(sorted, 1, pos) \o <<x>> \o SubSeq(sorted, pos + 1, Len(sorted))

SortedBy(s, field) ==
    LET ins[i \in 0..Len(s)] ==
            IF i = 0 THEN <<>> ELSE InsertSorted(ins[i - 1], s[i], field)
    IN  ins[Len(s)]

IsSortedBy(s, field) ==
    \A i \in 1..(Len(s) - 1) : StrLeq(s[i][field], s[i + 1][field])

\* Number of positions of s holding e.
Count(s, e) == Cardinality({i \in 1..Len(s) : s[i] = e})

Range(s) == {s[i] : i \in 1..Len(s)}

\* Same elements with the same multiplicities.
SameBag(s, t) ==
    /\ Len(s) = Len(t)
    /\ \A e \in Range(s) \cup Range(t) : Count(s, e) = Count(t, e)

---------------------------------------------------------------------------
(* serde_json::Value *)

Scalar(a) == [kind |-> "scalar", atom |-> a, members |-> <<>>]
Object(ms) == [kind |-> "object", atom |-> "", members |-> ms]
\* An array keeps its elements in `members`, keyed by their index.
Array(ms) == [kind |-> "array", atom |-> "", members |-> ms]
Member(k, v) == [key |-> k, val |-> v]

KeyEmpty == <<>>
KeyA == <<97>>
KeyB == <<98>>
KeyADotB == <<97, 46, 98>>
Keys == {KeyEmpty, KeyA, KeyB, KeyADotB}

LeafValues == {Scalar("1"), Array(<<Member(<<48>>, Scalar("1")), Member(<<49>>, Scalar("2"))>>)}

RECURSIVE JsonOfSize(_), MembersOfSize(_, _)
\* Sequences of members with pairwise distinct keys from ks whose values have
\* `total` nodes together, in every member order.
MembersOfSize(total, ks) ==
    IF total = 0 THEN {<<>>}
    ELSE UNION { LET firsts == JsonOfSize(s)
                     rests == MembersOfSize(total - s, ks \ {k})
                 IN  { <<Member(k, v)>> \o rest : v \in firsts, rest \in rests } :
                 k \in ks, s \in 1..total }

\* JSON values with exactly n nodes (an array is one node).
JsonOfSize(n) ==
    IF n = 1 THEN LeafValues \cup {Object(<<>>)}
    ELSE {Object(ms) : ms \in MembersOfSize(n - 1, Keys)}

KeyTopic == <<116, 111, 112, 105, 99>>
KeyAuth == <<97, 117, 116, 104>>
KeyUser == <<117, 115, 101, 114>>
KeyToken == <<116, 111, 107, 101, 110>>

\* {"topic":"t1","auth":{"user":"bob","token":"x"}}
ExampleParams ==
    Object(<<Member(KeyTopic, Scalar("t1")),
             Member(KeyAuth, Object(<<Member(KeyUser, Scalar("bob")),
                                      Member(KeyToken, Scalar("x"))>>))>>)

\* {"a.b":"1","a":{"b":"2"}}
DottedParams ==
    Object(<<Member(KeyADotB, Scalar("1")),
             Member(KeyA, Object(<<Member(KeyB, Scalar("2"))>>))>>)

\* {"":{"a":"1"},"a":"2"}
EmptyKeyParams ==
    Object(<<Member(KeyEmpty, Object(<<Member(KeyA, Scalar("1"))>>)),
             Member(KeyA, Scalar("2"))>>)

\* {"a":{"b":"1"},"b":["1","2"]}
NestedParams ==
    Object(<<Member(KeyA, Object(<<Member(KeyB, Scalar("1"))>>)),
             Member(KeyB, Array(<<Member(<<48>>, Scalar("1")), Member(<<49>>, Scalar("2"))>>))>>)

\* {"":{"a":"1","b":["1","2"]}}
EmptyParentParams ==
    Object(<<Member(KeyEmpty,
                    Object(<<Member(KeyA, Scalar("1")),
                             Member(KeyB, Array(<<Member(<<48>>, Scalar("1")),
                                                  Member(<<49>>, Scalar("2"))>>))>>))>>)

\* The values flatten_json is called on: every value of at most MaxNodes
\* nodes, and some larger ones.
JsonValues ==
    UNION {JsonOfSize(n) : n \in 1..MaxNodes}
        \cup {ExampleParams, DottedParams, EmptyKeyParams, NestedParams, EmptyParentParams}

---------------------------------------------------------------------------
(* flatten_json *)

\* The path pushed for member `key` of the object at path `root`.
ChildPathNoRoot(root, key) == key

ChildPath(root, key) ==
    IF root = <<>> THEN key ELSE root \o <<Dot>> \o key

\* for (key, val) in obj { values.push(..) }: the items pushed, in member order.
PushMembersDropLast(root, obj) ==
    [i \in 1..(Len(obj) - 1) |-> [root |-> ChildPath(root, obj[i].key), value |-> obj[i].val]]

PushMembers(root, obj) ==
    [i \in 1..Len(obj) |-> [root |-> ChildPath(root, obj[i].key), value |-> obj[i].val]]

\* if let Value::Object(obj) = value
IsObjectOrArray(value) == value.kind # "scalar"

IsObject(value) == value.kind = "object"

\* One iteration of `while let Some((root, value)) = values.pop()`.
FlattenBody(values, acc) ==
    LET item == values[Len(values)]
        rest == SubSeq(values, 1, Len(values) - 1)
    IN  IF IsObject(item.value)
        THEN [values |-> rest \o PushMembers(item.root, item.value.members), acc |-> acc]
        ELSE [values |-> rest, acc |-> Append(acc, [key |-> item.root, value |-> item.value])]

RECURSIVE FlattenLoop(_, _)
FlattenLoop(values, acc) ==
    IF values = <<>> THEN acc
    ELSE LET s == FlattenBody(values, acc) IN FlattenLoop(s.values, s.acc)

\* flatten_json(value), as the executors call it.
FlattenJson(value) == FlattenLoop(<<[root |-> <<>>, value |-> value]>>, <<>>)

\* flatten_json statement by statement.
FlattenIdle ==
    /\ fl_pc = "idle"
    /\ fl_input = Object(<<>>)
    /\ fl_values = <<>>
    /\ fl_acc = <<>>
    /\ fl_iters = 0

FlattenEnter ==
    /\ fl_pc = "loop"
    /\ fl_input \in JsonValues
    /\ fl_values = <<[root |-> <<>>, value |-> fl_input]>>
    /\ fl_acc = <<>>
    /\ fl_iters = 0

FlattenIter ==
    /\ fl_pc = "loop"
    /\ fl_values # <<>>
    /\ LET s == FlattenBody(fl_values, fl_acc)
       IN  /\ fl_values' = s.values
           /\ fl_acc' = s.acc
    /\ fl_iters' = fl_iters + 1
    /\ UNCHANGED <<fl_pc, fl_input>>
    /\ UNCHANGED cliVars

FlattenReturn ==
    /\ fl_pc = "loop"
    /\ fl_values = <<>>
    /\ fl_pc' = "done"
    /\ UNCHANGED <<fl_input, fl_values, fl_acc, fl_iters>>
    /\ UNCHANGED cliVars

---------------------------------------------------------------------------
(* The metastore's data *)

IdA == <<97>>
IdB == <<98>>
IdAB == <<97, 98>>
IdBA == <<98, 97>>

SourceConfig(id, type, params) ==
    [source_id |-> id, source_type |-> type, params |-> params]

SrcA == SourceConfig(IdA, "file", Object(<<Member(KeyA, Scalar("1")), Member(KeyB, Scalar("2"))>>))
SrcB == SourceConfig(IdB, "kafka", ExampleParams)
SrcAB == SourceConfig(IdAB, "file", Object(<<>>))
SrcA2 == SourceConfig(IdA, "kafka", DottedParams)
SourcePool == {SrcA, SrcB, SrcAB, SrcA2}

\* index_metadata.sources: a Vec, in whatever order the metastore returns.
SourceLists == UNION {[1..n -> SourcePool] : n \in 0..MaxSources}

PartP1 == <<112, 49>>
PartP2 == <<112, 50>>
PartP10 == <<112, 49, 48>>
PartitionIds == {PartP1, PartP2, PartP10}
Positions == {"5", "10"}

\* index_metadata.checkpoint as its iterator yields it: one (partition, position)
\* pair per partition, in the mapping's iteration order.
Checkpoints ==
    UNION { { c \in [1..n -> [partition_id : PartitionIds, position : Positions]] :
                \A i, j \in 1..n : i # j => c[i].partition_id # c[j].partition_id } :
            n \in 0..MaxPartitions }

IndexMetadatas == {[sources |-> s, checkpoint |-> c] : s \in SourceLists, c \in Checkpoints}

NoIndexMetadata == [sources |-> <<>>, checkpoint |-> <<>>]

---------------------------------------------------------------------------
(* Results *)

NoResult == [kind |-> "none", origin |-> "", msg |-> <<>>]
Ok == [kind |-> "ok", origin |-> "", msg |-> <<>>]
Err(origin, msg) == [kind |-> "err", origin |-> origin, msg |-> msg]
Panic(origin) == [kind |-> "panic", origin |-> origin, msg |-> <<>>]

---------------------------------------------------------------------------
(* SourceCliCommand::parse_cli_args *)

Absent == [present |-> FALSE, val |-> ""]
Given(v) == [present |-> TRUE, val |-> v]
AbsentId == [present |-> FALSE, val |-> <<>>]

RawUris == {"s3://bucket/ms", "ms", "\\bad"}

\* quickwit_common::uri::normalize_uri: a URI with a scheme is kept, a path is
\* made a file:// URI, anything else is an error.
NormalizeUri(uri) ==
    CASE uri = "s3://bucket/ms" -> [ok |-> TRUE, uri |-> "s3://bucket/ms"]
      [] uri = "ms" -> [ok |-> TRUE, uri |-> "file:///cwd/ms"]
      [] OTHER -> [ok |-> FALSE, uri |-> ""]

NoCommand == [variant |-> "none", metastore_uri |-> "", index_id |-> "", source_id |-> <<>>]

Parsed(cmd) == [res |-> Ok, cmd |-> cmd]
NotParsed(res) == [res |-> res, cmd |-> NoCommand]

\* A slip: an absent index-id read as the empty string instead of `expect`.
ParseDescribeArgsDefaultIndex(m) ==
    IF ~m.metastore_uri.present THEN NotParsed(Panic("metastore-uri"))
    ELSE IF ~NormalizeUri(m.metastore_uri.val).ok THEN NotParsed(Err("parse", <<>>))
    ELSE IF ~m.source_id.present THEN NotParsed(Panic("source-id"))
    ELSE Parsed([variant |-> "DescribeSource",
                 metastore_uri |-> NormalizeUri(m.metastore_uri.val).uri,
                 index_id |-> m.index_id.val,
                 source_id |-> m.source_id.val])

ParseDescribeArgs(m) ==
    IF ~m.metastore_uri.present THEN NotParsed(Panic("metastore-uri"))
    ELSE IF ~NormalizeUri(m.metastore_uri.val).ok THEN NotParsed(Err("parse", <<>>))
    ELSE IF ~m.index_id.present THEN NotParsed(Panic("index-id"))
    ELSE IF ~m.source_id.present THEN NotParsed(Panic("source-id"))
    ELSE Parsed([variant |-> "DescribeSource",
                 metastore_uri |-> NormalizeUri(m.metastore_uri.val).uri,
                 index_id |-> m.index_id.val,
                 source_id |-> m.source_id.val])

ParseListArgs(m) ==
    IF ~m.metastore_uri.present THEN NotParsed(Panic("metastore-uri"))
    ELSE IF ~NormalizeUri(m.metastore_uri.val).ok THEN NotParsed(Err("parse", <<>>))
    ELSE IF ~m.index_id.present THEN NotParsed(Panic("index-id"))
    ELSE Parsed([variant |-> "ListSources",
                 metastore_uri |-> NormalizeUri(m.metastore_uri.val).uri,
                 index_id |-> m.index_id.val,
                 source_id |-> <<>>])

ParseCliArgsFn(m) ==
    CASE m.subcommand = "none" -> NotParsed(Err("parse", <<>>))
      [] m.subcommand = "describe" -> ParseDescribeArgs(m)
      [] m.subcommand = "list" -> ParseListArgs(m)
      [] OTHER -> NotParsed(Err("parse", <<>>))

ArgMatches ==
    { m \in [subcommand : {"none", "describe", "list", "source-other"},
             metastore_uri : {Absent} \cup {Given(u) : u \in RawUris},
             index_id : {Absent, Given("idx")},
             source_id : {AbsentId} \cup {Given(i) : i \in {IdA, IdB, IdBA}}] :
        m.subcommand # "describe" => m.source_id = AbsentId }

\* parse_cli_args; on Ok the caller goes on to execute().
ParseCliArgs ==
    /\ pc = "start"
    /\ LET p == ParseCliArgsFn(matches)
       IN  IF p.res.kind = "ok"
           THEN /\ command' = p.cmd
                /\ pc' = "parsed"
                /\ UNCHANGED result
           ELSE /\ result' = p.res
                /\ pc' = "done"
                /\ UNCHANGED command
    /\ UNCHANGED <<matches, metastore, index_metadata, stdout, call_log>>
    /\ UNCHANGED flVars

---------------------------------------------------------------------------
(* describe_source_cli and list_sources_cli *)

Call(op, ok) == [op |-> op, ok |-> ok]

\* A slip: the resolve error is dropped instead of returned by `?`.
ResolveSwallowed ==
    /\ pc = "parsed"
    /\ \E ok \in BOOLEAN :
          /\ call_log' = Append(call_log, Call("resolve", ok))
          /\ metastore' = ok
          /\ pc' = "resolved"
          /\ UNCHANGED result
    /\ UNCHANGED <<matches, command, index_metadata, stdout>>
    /\ UNCHANGED flVars

\* metastore_uri_resolver.resolve(&args.metastore_uri).await?
Resolve ==
    /\ pc = "parsed"
    /\ \E ok \in BOOLEAN :
          /\ call_log' = Append(call_log, Call("resolve", ok))
          /\ metastore' = ok
          /\ IF ok THEN pc' = "resolved" /\ UNCHANGED result
                   ELSE pc' = "done" /\ result' = Err("resolve", <<>>)
    /\ UNCHANGED <<matches, command, index_metadata, stdout>>
    /\ UNCHANGED flVars

\* metastore.index_metadata(&args.index_id).await?
IndexMetadata ==
    /\ pc = "resolved"
    /\ \/ /\ call_log' = Append(call_log, Call("index_metadata", FALSE))
          /\ pc' = "done"
          /\ result' = Err("index_metadata", <<>>)
          /\ UNCHANGED index_metadata
       \/ \E md \in IndexMetadatas :
             /\ call_log' = Append(call_log, Call("index_metadata", TRUE))
             /\ index_metadata' = md
             /\ pc' = "fetched"
             /\ UNCHANGED result
    /\ UNCHANGED <<matches, command, metastore, stdout>>
    /\ UNCHANGED flVars

\* sources.into_iter().find(|source| source.source_id == args.source_id):
\* the first match, as an Option (a sequence of at most one source).
FindSourceOrFirst(sources, source_id) ==
    LET hits == {i \in 1..Len(sources) : sources[i].source_id = source_id}
    IN  IF hits # {} THEN <<sources[CHOOSE i \in hits : \A j \in hits : i <= j]>>
        ELSE IF sources # <<>> THEN <<sources[1]>> ELSE <<>>

FindSource(sources, source_id) ==
    LET hits == {i \in 1..Len(sources) : sources[i].source_id = source_id}
    IN  IF hits = {} THEN <<>>
        ELSE <<sources[CHOOSE i \in hits : \A j \in hits : i <= j]>>

\* "Source `" and "` does not exist."
NotFoundPrefix == <<83, 111, 117, 114, 99, 101, 32, 96>>
NotFoundSuffix == <<96, 32, 100, 111, 101, 115, 32, 110, 111, 116, 32, 101, 120, 105, 115, 116, 46>>

\* format!("Source `{}` does not exist.", args.source_id)
NotFoundMessage(source_id) == NotFoundPrefix \o source_id \o NotFoundSuffix

\* make_table(rows, header)
MakeTable(rows, header) == [header |-> header, rows |-> rows]

SourceRow(source) == [source_id |-> source.source_id, source_type |-> source.source_type]

\* The Parameters rows, without the sort.
ParamsRowsUnsorted(params) == FlattenJson(params)

\* flatten_json(source.params) ... .sorted_by(|left, right| left.key.cmp(&right.key))
ParamsRows(params) == SortedBy(FlattenJson(params), "key")

CheckpointRow(entry) == [partition_id |-> entry.partition_id, offset |-> entry.position]

\* The Checkpoint rows, without the sort.
CheckpointRowsUnsorted(checkpoint) ==
    [i \in 1..Len(checkpoint) |-> CheckpointRow(checkpoint[i])]

\* checkpoint.iter().map(..).sorted_by(|left, right| left.partition_id.cmp(..))
CheckpointRows(checkpoint) ==
    SortedBy([i \in 1..Len(checkpoint) |-> CheckpointRow(checkpoint[i])],
             "partition_id")

\* The Sources rows, without the sort.
ListRowsUnsorted(sources) == [i \in 1..Len(sources) |-> SourceRow(sources[i])]

\* sources.into_iter().map(..).sorted_by(|left, right| left.source_id.cmp(..))
ListRows(sources) ==
    SortedBy([i \in 1..Len(sources) |-> SourceRow(sources[i])], "source_id")

\* A slip: the checkpoint table is printed before the source is looked up.
DescribeSourceCliEager ==
    /\ pc = "fetched"
    /\ command.variant = "DescribeSource"
    /\ LET found == FindSource(index_metadata.sources, command.source_id)
           early == <<MakeTable(CheckpointRows(index_metadata.checkpoint), "Checkpoint")>>
       IN  IF found = <<>>
           THEN /\ result' = Err("find", NotFoundMessage(command.source_id))
                /\ stdout' = stdout \o early
           ELSE /\ stdout' = stdout \o early \o
                       <<MakeTable(<<SourceRow(found[1])>>, "Source"),
                         MakeTable(ParamsRows(found[1].params), "Parameters")>>
                /\ result' = Ok
    /\ pc' = "done"
    /\ UNCHANGED <<matches, command, metastore, index_metadata, call_log>>
    /\ UNCHANGED flVars

\* describe_source_cli after the two metastore calls: find, the three tables, println!
DescribeSourceCli ==
    /\ pc = "fetched"
    /\ command.variant = "DescribeSource"
    /\ LET found == FindSource(index_metadata.sources, command.source_id)
       IN  IF found = <<>>
           THEN /\ result' = Err("find", NotFoundMessage(command.source_id))
                /\ UNCHANGED stdout
           ELSE /\ stdout' = stdout \o
                       <<MakeTable(<<SourceRow(found[1])>>, "Source"),
                         MakeTable(ParamsRows(found[1].params), "Parameters"),
                         MakeTable(CheckpointRows(index_metadata.checkpoint), "Checkpoint")>>
                /\ result' = Ok
    /\ pc' = "done"
    /\ UNCHANGED <<matches, command, metastore, index_metadata, call_log>>
    /\ UNCHANGED flVars

\* list_sources_cli after the two metastore calls: the rows, the table, println!
ListSourcesCli ==
    /\ pc = "fetched"
    /\ command.variant = "ListSources"
    /\ stdout' = stdout \o <<MakeTable(ListRows(index_metadata.sources), "Sources")>>
    /\ result' = Ok
    /\ pc' = "done"
    /\ UNCHANGED <<matches, command, metastore, index_metadata, call_log>>
    /\ UNCHANGED flVars

---------------------------------------------------------------------------
(* Specifications *)

CliIdle ==
    /\ matches = [subcommand |-> "none", metastore_uri |-> Absent,
                  index_id |-> Absent, source_id |-> AbsentId]
    /\ pc = "idle"
    /\ command = NoCommand
    /\ metastore = FALSE
    /\ index_metadata = NoIndexMetadata
    /\ result = NoResult
    /\ stdout = <<>>
    /\ call_log = <<>>

\* One invocation of `quickwit source <subcommand> ...`: parse_cli_args is
\* public and takes any ArgMatches, with or without each argument.
Init ==
    /\ matches \in ArgMatches
    /\ pc = "start"
    /\ command = NoCommand
    /\ metastore = FALSE
    /\ index_metadata = NoIndexMetadata
    /\ result = NoResult
    /\ stdout = <<>>
    /\ call_log = <<>>
    /\ FlattenIdle

Next ==
    \/ ParseCliArgs
    \/ Resolve
    \/ IndexMetadata
    \/ DescribeSourceCli
    \/ ListSourcesCli

Spec == Init /\ [][Next]_vars

\* One call of flatten_json on a JSON value.
FlattenInit == CliIdle /\ FlattenEnter

FlattenNext == FlattenIter \/ FlattenReturn

FlattenSpec == FlattenInit /\ [][FlattenNext]_vars

\* The loop is straight-line code: it keeps running until it returns.
FlattenLive == FlattenInit /\ [][FlattenNext]_vars /\ WF_vars(FlattenNext)

---------------------------------------------------------------------------
(* What flatten_json is to return, stated over the tree *)

\* The leaves of v: every non-object value reached through object members only,
\* with the member keys from the root down to it.
RECURSIVE LeafSet(_)
LeafSet(v) ==
    IF v.kind = "object"
    THEN UNION { {[keys |-> <<v.members[i].key>> \o l.keys, value |-> l.value] :
                    l \in LeafSet(v.members[i].val)} : i \in 1..Len(v.members) }
    ELSE {[keys |-> <<>>, value |-> v]}

\* The nodes of v reached through object members, v included.
RECURSIVE NodeCount(_)
NodeCount(v) ==
    IF v.kind = "object"
    THEN LET sub[i \in 0..Len(v.members)] ==
                 IF i = 0 THEN 0 ELSE sub[i - 1] + NodeCount(v.members[i].val)
         IN  1 + sub[Len(v.members)]
    ELSE 1

\* Every key of every object of v.
RECURSIVE AllKeys(_)
AllKeys(v) ==
    IF v.kind = "object"
    THEN UNION { {v.members[i].key} \cup AllKeys(v.members[i].val) : i \in 1..Len(v.members) }
    ELSE {}

\* keys joined with "."
RECURSIVE Join(_)
Join(keys) ==
    IF keys = <<>> THEN <<>>
    ELSE IF Len(keys) = 1 THEN keys[1]
    ELSE keys[1] \o <<46>> \o Join(Tail(keys))

RECURSIVE DropLeadingEmpty(_)
DropLeadingEmpty(keys) ==
    IF keys # <<>> /\ keys[1] = <<>> THEN DropLeadingEmpty(Tail(keys)) ELSE keys

\* acc holds exactly one entry per leaf of v: the leaf's value under the path
\* that `path` gives the leaf.
OneEntryPerLeaf(acc, v, path) ==
    LET leaves == LeafSet(v)
        Entry(l) == [key |-> path[l], value |-> l.value]
    IN  /\ Len(acc) = Cardinality(leaves)
        /\ \A l \in leaves :
              Count(acc, Entry(l)) = Cardinality({m \in leaves : Entry(m) = Entry(l)})

PairwiseDistinctPaths(acc) ==
    \A i, j \in 1..Len(acc) : i # j => acc[i].key # acc[j].key

PlainKey(k) == k # <<>> /\ \A i \in 1..Len(k) : k[i] # 46

---------------------------------------------------------------------------
(* Claims about flatten_json *)

\* C4, as claimed: when flatten_json returns, it holds exactly one entry per
\* leaf, whose value is the leaf and whose path is the member keys from the
\* root to the leaf joined with ".".
C4_PathIsJoinedKeys ==
    fl_pc = "done" =>
        OneEntryPerLeaf(fl_acc, fl_input, [l \in LeafSet(fl_input) |-> Join(l.keys)])

\* C4, amended: when flatten_json returns, it holds exactly one entry per leaf
\* (an array is one leaf), whose value is the leaf and whose path is the member
\* keys from the root to the leaf joined with "." after the leading empty keys
\* are dropped; an empty object gives no entry and a non-object top-level value
\* gives one entry with the empty path.
C4_OneEntryPerLeaf ==
    fl_pc = "done" =>
        /\ OneEntryPerLeaf(fl_acc, fl_input,
                           [l \in LeafSet(fl_input) |-> Join(DropLeadingEmpty(l.keys))])
        /\ (fl_input = Object(<<>>) => fl_acc = <<>>)
        /\ (fl_input.kind # "object" => fl_acc = <<[key |-> <<>>, value |-> fl_input]>>)

\* flatten_json returned two entries, one of them an array below an empty key
\* that is itself followed by another key.
C4_Witness ==
    /\ fl_pc = "done"
    /\ Len(fl_acc) = 2
    /\ \E l \in LeafSet(fl_input) :
          /\ Len(l.keys) = 2 /\ l.keys[1] = <<>> /\ l.keys[2] # <<>>
          /\ l.value.kind = "array"

\* C5, as claimed: no two entries of one flatten_json result carry the same
\* dotted path (object keys being unique at every level).
C5_PathsDistinct ==
    fl_pc = "done" => PairwiseDistinctPaths(fl_acc)

\* C5, amended: when every key of the value is non-empty and contains no ".",
\* no two entries of one flatten_json result carry the same dotted path.
C5_PlainKeysPathsDistinct ==
    (fl_pc = "done" /\ \A k \in AllKeys(fl_input) : PlainKey(k))
        => PairwiseDistinctPaths(fl_acc)

\* flatten_json returned a nested and a top-level entry of a value with plain keys.
C5_Witness ==
    /\ fl_pc = "done"
    /\ \A k \in AllKeys(fl_input) : PlainKey(k)
    /\ Len(fl_acc) = 2
    /\ \E i \in 1..2 : \E j \in 1..Len(fl_acc[i].key) : fl_acc[i].key[j] = 46

\* C10: the work-list loop terminates, having run one iteration per node
\* reachable through object members.
C10_Terminates ==
    <>(fl_pc = "done" /\ fl_values = <<>> /\ fl_iters = NodeCount(fl_input))

\* flatten_json returned from a value with an object inside an object.
C10_Witness ==
    /\ fl_pc = "done"
    /\ fl_iters = 4
    /\ \E i \in 1..Len(fl_input.members) :
          /\ fl_input.members[i].val.kind = "object"
          /\ fl_input.members[i].val.members # <<>>

---------------------------------------------------------------------------
(* Claims about the commands *)

Finished(variant) == pc = "done" /\ command.variant = variant

BothCallsOk == call_log = <<Call("resolve", TRUE), Call("index_metadata", TRUE)>>

Matching == {i \in 1..Len(index_metadata.sources) :
                index_metadata.sources[i].source_id = command.source_id}

\* The source describe is about: the first of the list with the requested id.
FirstMatching == index_metadata.sources[CHOOSE i \in Matching : \A j \in Matching : i <= j]

\* C1: a describe whose two metastore calls succeed either finds a source
\* with the requested id, succeeds, and prints a Source table of exactly one
\* row, the (source_id, source_type) of a matching source; or finds none and
\* fails with a message containing the requested id, having printed nothing.
C1_DescribeFindsOrFails ==
    (Finished("DescribeSource") /\ BothCallsOk) =>
        IF Matching # {}
        THEN /\ result = Ok
             /\ Len(stdout) >= 1
             /\ stdout[1].header = "Source"
             /\ Len(stdout[1].rows) = 1
             /\ \E i \in Matching :
                   stdout[1].rows[1] =
                       [source_id |-> index_metadata.sources[i].source_id,
                        source_type |-> index_metadata.sources[i].source_type]
        ELSE /\ result.kind = "err"
             /\ Contains(result.msg, command.source_id)
             /\ stdout = <<>>

\* describe "b" on the sources [("a","file"), ("b","kafka")] printed ("b","kafka").
C1_Witness ==
    /\ Finished("DescribeSource")
    /\ index_metadata.sources = <<SrcA, SrcB>>
    /\ command.source_id = IdB
    /\ result = Ok
    /\ stdout[1].rows = <<[source_id |-> IdB, source_type |-> "kafka"]>>

RequiredAbsent(m) ==
    \/ /\ m.subcommand = "describe"
       /\ ~(m.metastore_uri.present /\ m.index_id.present /\ m.source_id.present)
    \/ /\ m.subcommand = "list"
       /\ ~(m.metastore_uri.present /\ m.index_id.present)

C3_ListAllSorted ==
    (Finished("ListSources") /\ result = Ok) =>
        /\ Len(stdout) = 1
        /\ stdout[1].header = "Sources"
        /\ SameBag(stdout[1].rows,
                   [i \in 1..Len(index_metadata.sources) |->
                       [source_id |-> index_metadata.sources[i].source_id,
                        source_type |-> index_metadata.sources[i].source_type]])
        /\ IsSortedBy(stdout[1].rows, "source_id")

\* list on the sources returned as ["b", "a"] printed "a" before "b".
C3_Witness ==
    /\ Finished("ListSources")
    /\ index_metadata.sources = <<SrcB, SrcA>>
    /\ stdout[1].rows = <<[source_id |-> IdA, source_type |-> "file"],
                          [source_id |-> IdB, source_type |-> "kafka"]>>

\* C6: a successful describe prints as Parameters rows exactly the entries of
\* flatten_json(params) of the matched source, in ascending lexicographic
\* order of the dotted path.
C6_ParamsFlattenedSorted ==
    (Finished("DescribeSource") /\ result = Ok) =>
        /\ Len(stdout) >= 2
        /\ stdout[2].header = "Parameters"
        /\ SameBag(stdout[2].rows, FlattenJson(FirstMatching.params))
        /\ IsSortedBy(stdout[2].rows, "key")

\* describe of the source with {"topic":"t1","auth":{"user":"bob","token":"x"}}
\* printed auth.token, auth.user, topic.
C6_Witness ==
    /\ Finished("DescribeSource")
    /\ result = Ok
    /\ FirstMatching.params = ExampleParams
    /\ stdout[2].rows =
          <<[key |-> KeyAuth \o <<46>> \o KeyToken, value |-> Scalar("x")],
            [key |-> KeyAuth \o <<46>> \o KeyUser, value |-> Scalar("bob")],
            [key |-> KeyTopic, value |-> Scalar("t1")]>>

\* C7: a successful describe prints a Checkpoint table with exactly one row
\* (partition_id, offset) per entry of the checkpoint, in ascending
\* lexicographic order of partition id.
C7_CheckpointSorted ==
    (Finished("DescribeSource") /\ result = Ok) =>
        /\ Len(stdout) >= 3
        /\ stdout[3].header = "Checkpoint"
        /\ SameBag(stdout[3].rows,
                   [i \in 1..Len(index_metadata.checkpoint) |->
                       [partition_id |-> index_metadata.checkpoint[i].partition_id,
                        offset |-> index_metadata.checkpoint[i].position]])
        /\ IsSortedBy(stdout[3].rows, "partition_id")

\* describe on the checkpoint iterated as p2:10, p1:5 printed p1 then p2.
C7_Witness ==
    /\ Finished("DescribeSource")
    /\ result = Ok
    /\ index_metadata.checkpoint = <<[partition_id |-> PartP2, position |-> "10"],
                                     [partition_id |-> PartP1, position |-> "5"]>>
    /\ stdout[3].rows = <<[partition_id |-> PartP1, offset |-> "5"],
                          [partition_id |-> PartP2, offset |-> "10"]>>

Headers == [i \in 1..Len(stdout) |-> stdout[i].header]

\* C8: output is all-or-nothing: nothing is printed before an execution
\* ends, a failed execution has printed nothing, a successful describe has
\* printed Source, Parameters, Checkpoint in that order, and a successful
\* list has printed the one Sources table.
C8_AllOrNothing ==
    /\ pc # "done" => stdout = <<>>
    /\ (pc = "done" /\ result # Ok) => stdout = <<>>
    /\ (Finished("DescribeSource") /\ result = Ok) =>
            Headers = <<"Source", "Parameters", "Checkpoint">>
    /\ (Finished("ListSources") /\ result = Ok) => Headers = <<"Sources">>
    /\ (pc = "done" /\ stdout # <<>>) => result = Ok

\* describe failed on the missing source of an index that has sources and a
\* checkpoint, and printed nothing.
C8_Witness ==
    /\ Finished("DescribeSource")
    /\ result.kind = "err"
    /\ result.origin = "find"
    /\ index_metadata.sources # <<>>
    /\ index_metadata.checkpoint # <<>>
    /\ stdout = <<>>

\* C9: resolve is called first and once; index_metadata at most once and only
\* after resolve succeeded; a failed call ends the execution with that error
\* and no call follows it.
C9_OneShotCalls ==
    /\ call_log \in {<<>>,
                     <<Call("resolve", FALSE)>>,
                     <<Call("resolve", TRUE)>>,
                     <<Call("resolve", TRUE), Call("index_metadata", FALSE)>>,
                     <<Call("resolve", TRUE), Call("index_metadata", TRUE)>>}
    /\ (call_log # <<>> /\ ~call_log[Len(call_log)].ok) =>
            /\ pc = "done"
            /\ result = Err(call_log[Len(call_log)].op, <<>>)
    /\ pc \in {"start", "parsed"} => call_log = <<>>
    /\ (pc \in {"resolved", "fetched"} \/ (pc = "done" /\ command # NoCommand)) =>
            Count(call_log, Call("resolve", TRUE)) + Count(call_log, Call("resolve", FALSE)) = 1
    /\ pc = "fetched" => BothCallsOk

\* The index fetch failed after a successful resolve and ended the execution.
C9_Witness ==
    /\ pc = "done"
    /\ call_log = <<Call("resolve", TRUE), Call("index_metadata", FALSE)>>
    /\ result = Err("index_metadata", <<>>)

====
